---------------------------- MODULE Spec2Model ----------------------------
(***************************************************************************)
(* The Zehnder Cloud integration (custom_components/zehndercloud): the     *)
(* setup of a config entry, the per-device update coordinator and its      *)
(* fetch cycle, and the fan entity's percentage <-> speed mapping.         *)
(*                                                                         *)
(* Python's None is the empty sequence and a present value v is <<v>>, so  *)
(* that "is None" can be decided for values of any type.  A dict is a      *)
(* function from its keys (strings) to its values.                         *)
(*                                                                         *)
(* The coordinator inherits its scheduling from the framework's            *)
(* DataUpdateCoordinator, which is not part of the sources: the model      *)
(* takes from it only that a refresh stores what _async_update_data        *)
(* returns, keeps the old data when it raises, and that the first refresh  *)
(* re-raises.  The fetch cycles of one device run one after another here.  *)
(***************************************************************************)
EXTENDS Integers, Sequences, FiniteSets, TLC

\* Number of device ids the cloud account may hold.
NumDevices == 2

DeviceIds == 1..NumDevices

None == <<>>

Some(v) == <<v>>

\* dict.get(key): the value, or None when the key is missing.
DictGet(dict, key) == IF key \in DOMAIN dict THEN dict[key] ELSE None

\* The device lists get_devices may return: distinct ids, in any order.
DeviceLists ==
    { l \in UNION { [1..n -> DeviceIds] : n \in 0..NumDevices } :
        \A i, j \in DOMAIN l : i # j => l[i] # l[j] }

Range(seq) == { seq[i] : i \in DOMAIN seq }

\* __init__.py:26
PLATFORMS == {"sensor", "binary_sensor", "fan"}

\* fan.py:23
SPEED_RANGE == <<1, 3>>

Timestamps == {111, 112}

Presets == 0..3

\* The state dicts the cloud answers get_device_state with: a timestamp that
\* is there, null, or missing, and the ventilation preset.
StateDicts ==
    { [timestamp |-> Some(111), ventilationPreset |-> 2],
      [timestamp |-> Some(112), ventilationPreset |-> 3],
      [timestamp |-> None, ventilationPreset |-> 2],
      [ventilationPreset |-> 3] }

DetailsDicts == { [swVersion |-> "R1.4.0"] }

\* pyzehndercloud's DeviceState / DeviceDetails wrap the response dict.
DeviceState(dict) == [data |-> dict]

DeviceDetails(dict) == [data |-> dict]

\* What an API call may raise: the client's AuthError, any other error of the
\* client, and the TimeoutError of the enclosing async_timeout.timeout(10).
ApiExceptions == {"AuthError", "ApiError", "TimeoutError"}

VARIABLES
    setupPc,        \* where async_setup_entry stands
    setupResult,    \* what async_setup_entry returned or raised
    devices,        \* the list get_devices returned
    coordinators,   \* async_setup_entry's local list of coordinators (device ids)
    hassData,       \* hass.data[DOMAIN][entry_id]: None or the coordinator list
    forwarded,      \* the platforms forwarded to the entry
    pc,             \* per device: where its coordinator's fetch cycle stands
    locState,       \* per device: the local `state` of _async_update_data
    data,           \* per device: the coordinator's data (None or the snapshot)
    outcome,        \* per device: how its fetch cycle ended (none while it runs)
    cmd,            \* per device: the fan command awaiting set_device_settings
    refreshRequested, \* per device: async_request_refresh was called
    calls,          \* per device: the API calls its fetch cycle has issued
    cmdResult,      \* per device: how the last set_device_settings call ended
    entries,        \* the number of config entries of the domain
    flow,           \* the config flow: its source, its step, how it ended
    unloadResult    \* the last async_unload_entry: None, or what the unload
                    \* of the platforms gave and what was returned

vars == <<setupPc, setupResult, devices, coordinators, hassData, forwarded,
          pc, locState, data, outcome, cmd, refreshRequested, calls,
          cmdResult, entries, flow, unloadResult>>

setupVars == <<setupPc, setupResult, devices, coordinators, hassData, forwarded>>

cmdVars == <<cmd, refreshRequested, cmdResult>>

hostVars == <<entries, flow, unloadResult>>

\* No config flow has been started.
NoFlow == [source |-> "none", step |-> "none", result |-> "none"]

\* No call issued yet.
NoCalls == [state |-> 0, details |-> 0]

\* One more call of get_device_state ("state") or get_device_details
\* ("details").
IssueCall(c, call) == [c EXCEPT ![call] = @ + 1]

NoOutcome ==
    [raised |-> "none", by |-> "none", exc |-> "none", cause |-> "none"]

\* The integration before the setup of its entry.
InitIntegration ==
    /\ setupPc = "not_started"
    /\ setupResult = "none"
    /\ devices = <<>>
    /\ coordinators = <<>>
    /\ hassData = None
    /\ forwarded = {}
    /\ pc = [d \in DeviceIds |-> "absent"]
    /\ locState = [d \in DeviceIds |-> None]
    /\ data = [d \in DeviceIds |-> None]
    /\ outcome = [d \in DeviceIds |-> NoOutcome]
    /\ cmd = [d \in DeviceIds |-> None]
    /\ refreshRequested = [d \in DeviceIds |-> FALSE]
    /\ calls = [d \in DeviceIds |-> NoCalls]
    /\ cmdResult = [d \in DeviceIds |-> "none"]
    /\ unloadResult = None

\* The entry of the domain has been created by a user's flow.
Init ==
    /\ InitIntegration
    /\ entries = 1
    /\ flow = [source |-> "user", step |-> "done", result |-> "create_entry"]

-----------------------------------------------------------------------------
(* _async_update_data *)

\* ExceptHandler with the generic clause first: every exception, AuthError
\* included, becomes UpdateFailed.
ExceptHandlerGenericFirst(raised) ==
    [exc |-> "UpdateFailed", cause |-> raised, value |-> None]

\* The except clauses of _async_update_data, in their order.
ExceptHandler(raised) ==
    IF raised = "AuthError"
    THEN [exc |-> "ConfigEntryAuthFailed", cause |-> raised, value |-> None]
    ELSE [exc |-> "UpdateFailed", cause |-> raised, value |-> None]

\* TimestampCheck without the check: whatever came back is returned.
TimestampCheckSkipped(state, details) ==
    [exc |-> "none", cause |-> "none",
     value |-> Some([state |-> state, details |-> details])]

\* After both calls returned: the timestamp check and the returned dict.
TimestampCheck(state, details) ==
    IF DictGet(state.data, "timestamp") = None
    THEN [exc |-> "UpdateFailed", cause |-> "none", value |-> None]
    ELSE [exc |-> "none", cause |-> "none",
          value |-> Some([state |-> state, details |-> details])]

\* RefreshedData that drops the data when the cycle raises.
RefreshedDataCleared(old, result) ==
    IF result.exc = "none" THEN result.value ELSE None

\* The coordinator's refresh around _async_update_data: the returned dict
\* becomes the data, an exception leaves the data as it was.
RefreshedData(old, result) ==
    IF result.exc = "none" THEN result.value ELSE old

\* FirstRefreshRaises as a plain refresh, which swallows the cycle's failure.
FirstRefreshSwallows(result) == "none"

\* A first refresh that raises for an authentication failure alone.
FirstRefreshAuthOnly(result) ==
    IF result.exc = "ConfigEntryAuthFailed" THEN "ConfigEntryAuthFailed"
    ELSE "none"

\* async_config_entry_first_refresh: what it raises for the cycle's result.
FirstRefreshRaises(result) ==
    CASE result.exc = "ConfigEntryAuthFailed" -> "ConfigEntryAuthFailed"
      [] result.exc = "UpdateFailed" -> "ConfigEntryNotReady"
      [] OTHER -> "none"

\* The device whose first refresh async_setup_entry is awaiting.
InFirstRefresh(d) ==
    /\ setupPc = "first_refresh"
    /\ devices[Len(coordinators) + 1] = d

\* The coordinator put in front of the list.
PrependCoordinator(list, d) == <<d>> \o list

\* coordinators.append(coordinator)
AppendCoordinator(list, d) == Append(list, d)

\* Both calls issued together when the cycle starts.
CallsGathered == IssueCall(IssueCall(NoCalls, "state"), "details")

\* The calls issued when a cycle starts: get_device_state alone.
CallsAtCycleStart == IssueCall(NoCalls, "state")

\* PcAfterRaise with a retry of the cycle after a timeout.
PcAfterRaiseRetry(raised) ==
    IF raised = "TimeoutError" THEN "state_call" ELSE "idle"

\* Where the cycle stands after an except clause: it has raised, the
\* coroutine is over.
PcAfterRaise(raised) == "idle"

\* The end of device d's fetch cycle with `result`, `raised` by call `by`.
FinishCycle(d, result, raised, by) ==
    /\ LET next == IF raised = "none" THEN "idle" ELSE PcAfterRaise(raised) IN
        /\ pc' = [pc EXCEPT ![d] = next]
        /\ calls' = [calls EXCEPT ![d] =
                IF next = "state_call" THEN IssueCall(@, "state") ELSE @]
    /\ locState' = [locState EXCEPT ![d] = None]
    /\ data' = [data EXCEPT ![d] = RefreshedData(data[d], result)]
    /\ outcome' = [outcome EXCEPT ![d] =
            [raised |-> raised, by |-> by,
             exc |-> result.exc, cause |-> result.cause]]
    /\ IF InFirstRefresh(d)
       THEN IF FirstRefreshRaises(result) = "none"
            THEN /\ coordinators' = AppendCoordinator(coordinators, d)
                 /\ setupPc' = "loop"
                 /\ UNCHANGED setupResult
            ELSE /\ setupPc' = "raised"
                 /\ setupResult' = FirstRefreshRaises(result)
                 /\ UNCHANGED coordinators
       ELSE UNCHANGED <<setupPc, setupResult, coordinators>>
    /\ UNCHANGED <<devices, hassData, forwarded, cmdVars, hostVars>>

\* get_device_state returns: the cycle goes on to get_device_details.
StateCallReturns(d, dict) ==
    /\ pc[d] = "state_call"
    /\ pc' = [pc EXCEPT ![d] = "details_call"]
    /\ locState' = [locState EXCEPT ![d] = Some(DeviceState(dict))]
    /\ calls' = [calls EXCEPT ![d] = IssueCall(@, "details")]
    /\ UNCHANGED <<setupVars, data, outcome, cmdVars, hostVars>>

\* get_device_state raises, or its 10 seconds pass.
StateCallRaises(d, raised) ==
    /\ pc[d] = "state_call"
    /\ FinishCycle(d, ExceptHandler(raised), raised, "state")

\* get_device_details returns: the timestamp check ends the cycle.
DetailsCallReturns(d, dict) ==
    /\ pc[d] = "details_call"
    /\ FinishCycle(d, TimestampCheck(locState[d][1], DeviceDetails(dict)),
                   "none", "none")

\* get_device_details raises, or its 10 seconds pass.
DetailsCallRaises(d, raised) ==
    /\ pc[d] = "details_call"
    /\ FinishCycle(d, ExceptHandler(raised), raised, "details")

\* The coordinator's `state` property, self.data.get("state"): a value, or
\* the AttributeError of None.get while there is no data.
CoordinatorState(d) ==
    IF data[d] = None
    THEN [ok |-> FALSE, error |-> "AttributeError"]
    ELSE [ok |-> TRUE, value |-> DictGet(data[d][1], "state")]

\* The coordinator's `details` property, self.data.get("details").
CoordinatorDetails(d) ==
    IF data[d] = None
    THEN [ok |-> FALSE, error |-> "AttributeError"]
    ELSE [ok |-> TRUE, value |-> DictGet(data[d][1], "details")]

\* The devices whose coordinators are registered and whose entities exist.
Registered == IF hassData = None THEN {} ELSE Range(hassData[1])

\* A timer tick or a requested refresh starts a fetch cycle.
Refresh(d) ==
    /\ setupPc = "done"
    /\ d \in Registered
    /\ pc[d] = "idle"
    /\ pc' = [pc EXCEPT ![d] = "state_call"]
    /\ outcome' = [outcome EXCEPT ![d] = NoOutcome]
    /\ refreshRequested' = [refreshRequested EXCEPT ![d] = FALSE]
    /\ calls' = [calls EXCEPT ![d] = CallsAtCycleStart]
    /\ UNCHANGED <<setupVars, locState, data, cmd, cmdResult, hostVars>>

-----------------------------------------------------------------------------
(* async_setup_entry *)

SetupEntry ==
    /\ entries > 0
    /\ setupPc = "not_started"
    /\ setupPc' = "get_devices"
    /\ UNCHANGED <<setupResult, devices, coordinators, hassData, forwarded,
                   pc, locState, data, outcome, cmdVars, calls, hostVars>>

GetDevicesReturns(list) ==
    /\ setupPc = "get_devices"
    /\ devices' = list
    /\ coordinators' = <<>>
    /\ setupPc' = "loop"
    /\ UNCHANGED <<setupResult, hassData, forwarded,
                   pc, locState, data, outcome, cmdVars, calls, hostVars>>

\* Only AuthError is caught; anything else leaves async_setup_entry as it is.
GetDevicesRaises(raised) ==
    /\ setupPc = "get_devices"
    /\ setupPc' = "raised"
    /\ setupResult' = IF raised = "AuthError" THEN "ConfigEntryAuthFailed"
                      ELSE raised
    /\ UNCHANGED <<devices, coordinators, hassData, forwarded,
                   pc, locState, data, outcome, cmdVars, calls, hostVars>>

\* One turn of the loop: the coordinator of the next device and the start of
\* its first refresh.
CreateCoordinator ==
    /\ setupPc = "loop"
    /\ Len(coordinators) < Len(devices)
    /\ LET d == devices[Len(coordinators) + 1] IN
        /\ pc' = [pc EXCEPT ![d] = "state_call"]
        /\ data' = [data EXCEPT ![d] = None]
        /\ outcome' = [outcome EXCEPT ![d] = NoOutcome]
        /\ calls' = [calls EXCEPT ![d] = CallsAtCycleStart]
    /\ setupPc' = "first_refresh"
    /\ UNCHANGED <<setupResult, devices, coordinators, hassData, forwarded,
                   locState, cmdVars, hostVars>>

\* After the loop: the registry entry, the platforms, return True.
SetupFinish ==
    /\ setupPc = "loop"
    /\ Len(coordinators) = Len(devices)
    /\ hassData' = Some(coordinators)
    /\ forwarded' = PLATFORMS
    /\ setupPc' = "done"
    /\ setupResult' = "True"
    /\ UNCHANGED <<devices, coordinators, pc, locState, data, outcome,
                   cmdVars, calls, hostVars>>

\* An unload that pops the registry entry whatever the platforms' unload
\* gave.
RegistryPopped(registry, unload_ok) == None

\* hass.data[DOMAIN] after async_unload_entry: the entry is popped when the
\* unload of the platforms succeeded.
RegistryAfterUnload(registry, unload_ok) ==
    IF unload_ok THEN None ELSE registry

\* async_unload_entry, with what async_unload_platforms gives.
UnloadEntry(unload_ok) ==
    /\ setupPc = "done"
    /\ hassData' = RegistryAfterUnload(hassData, unload_ok)
    /\ forwarded' = IF unload_ok THEN {} ELSE forwarded
    /\ setupPc' = IF unload_ok THEN "unloaded" ELSE "done"
    /\ unloadResult' = Some([unload_ok |-> unload_ok, returned |-> unload_ok])
    /\ UNCHANGED <<setupResult, devices, coordinators, pc, locState, data,
                   outcome, cmdVars, calls, entries, flow>>

-----------------------------------------------------------------------------
(* The config flow *)

\* async_step_user: the flow aborts when the domain has an entry, and goes
\* on to the OAuth2 authorization otherwise.
StepUser(n) ==
    IF n > 0
    THEN [step |-> "done", result |-> "abort_single_instance_allowed"]
    ELSE [step |-> "oauth", result |-> "none"]

\* No flow is in progress.
FlowIdle == flow.step \in {"none", "done"}

\* The host asks for re-authentication: the setup or a fetch cycle has
\* raised ConfigEntryAuthFailed.
AuthFailed ==
    \/ setupResult = "ConfigEntryAuthFailed"
    \/ \E d \in DeviceIds : outcome[d].exc = "ConfigEntryAuthFailed"

\* The user starts a flow: async_step_user.
FlowInitUser ==
    /\ FlowIdle
    /\ flow' = [source |-> "user",
                step |-> StepUser(entries).step,
                result |-> StepUser(entries).result]
    /\ UNCHANGED <<setupVars, pc, locState, data, outcome, cmdVars, calls,
                   entries, unloadResult>>

\* The host starts a reauth flow: async_step_reauth shows the form of
\* async_step_reauth_confirm.
FlowInitReauth ==
    /\ FlowIdle
    /\ entries > 0
    /\ AuthFailed
    /\ flow' = [source |-> "reauth", step |-> "reauth_confirm",
                result |-> "none"]
    /\ UNCHANGED <<setupVars, pc, locState, data, outcome, cmdVars, calls,
                   entries, unloadResult>>

\* The user confirms the form: async_step_reauth_confirm with user input
\* returns async_step_user().
FlowReauthConfirm ==
    /\ flow.step = "reauth_confirm"
    /\ flow' = [flow EXCEPT !.step = StepUser(entries).step,
                            !.result = StepUser(entries).result]
    /\ UNCHANGED <<setupVars, pc, locState, data, outcome, cmdVars, calls,
                   entries, unloadResult>>

\* The tokens arrive: async_oauth_create_entry. With an entry of the domain
\* its data are updated and it is reloaded (set up again from the start);
\* without one the entry is created.
FlowOAuthCreateEntry ==
    /\ flow.step = "oauth"
    /\ IF entries > 0
       THEN /\ flow' = [flow EXCEPT !.step = "done",
                                    !.result = "abort_reauth_successful"]
            /\ setupPc' = "not_started"
            /\ setupResult' = "none"
            /\ devices' = <<>>
            /\ coordinators' = <<>>
            /\ hassData' = None
            /\ forwarded' = {}
            /\ UNCHANGED entries
       ELSE /\ flow' = [flow EXCEPT !.step = "done",
                                    !.result = "create_entry"]
            /\ entries' = entries + 1
            /\ UNCHANGED setupVars
    /\ UNCHANGED <<pc, locState, data, outcome, cmdVars, calls, unloadResult>>

-----------------------------------------------------------------------------
(* The fan entity *)

\* states_in_range one short: high - low.
states_in_range_short(low_high_range) == low_high_range[2] - low_high_range[1]

\* homeassistant.util.percentage.states_in_range
states_in_range(low_high_range) == low_high_range[2] - low_high_range[1] + 1

\* ranged_value_to_percentage rounding up instead of down.
ranged_value_to_percentage_up(low_high_range, value) ==
    LET offset == low_high_range[1] - 1
        n == states_in_range(low_high_range)
    IN  ((value - offset) * 100 + n - 1) \div n

\* homeassistant.util.percentage.ranged_value_to_percentage:
\* int(((value - offset) * 100) // states_in_range(range))
ranged_value_to_percentage(low_high_range, value) ==
    LET offset == low_high_range[1] - 1
    IN  ((value - offset) * 100) \div states_in_range(low_high_range)

\* homeassistant.util.percentage.percentage_to_ranged_value:
\* states_in_range(range) * percentage / 100 + offset, a fraction kept as
\* numerator and denominator.
percentage_to_ranged_value(low_high_range, percentage) ==
    LET offset == low_high_range[1] - 1
    IN  [num |-> states_in_range(low_high_range) * percentage + offset * 100,
         den |-> 100]

\* int() in place of math.ceil: the fraction rounded down.
MathFloor(q) == q.num \div q.den

\* math.ceil of a fraction with a positive denominator.
MathCeil(q) == 0 - ((0 - q.num) \div q.den)

\* DeviceState.value(key) for a key the state holds.
StateValue(state, key) == state.data[key]

\* ZehnderCloudFan.percentage, for a device with stored data.
FanPercentage(d) ==
    ranged_value_to_percentage(
        SPEED_RANGE, StateValue(data[d][1].state, "ventilationPreset"))

\* The "Ventilation Preset" sensor's native_value.
VentilationPresetSensor(d) ==
    StateValue(data[d][1].state, "ventilationPreset")

\* The speed async_set_percentage computes.
SpeedOf(percentage) ==
    MathCeil(percentage_to_ranged_value(SPEED_RANGE, percentage))

HasFan(d) == setupPc = "done" /\ d \in Registered /\ "fan" \in forwarded

\* async_set_percentage up to its await of set_device_settings.
FanSetPercentage(d, percentage) ==
    /\ HasFan(d)
    /\ cmd[d] = None
    /\ LET speed == SpeedOf(percentage) IN
        cmd' = [cmd EXCEPT ![d] =
                Some([percentage |-> percentage,
                      patch |-> [setVentilationPreset |-> [value |-> speed]]])]
    /\ cmdResult' = [cmdResult EXCEPT ![d] = "none"]
    /\ UNCHANGED <<setupVars, pc, locState, data, outcome,
                   refreshRequested, calls, hostVars>>

\* async_turn_on without a percentage: async_set_percentage(1).
FanTurnOn(d) == FanSetPercentage(d, 1)

\* async_turn_off: async_set_percentage(0).
FanTurnOff(d) == FanSetPercentage(d, 0)

\* The request of a refresh in a finally clause: made whatever happened.
RefreshInFinally(requested) == TRUE

\* Whether a refresh is requested once set_device_settings has raised: the
\* exception leaves the handler before async_request_refresh, so what was
\* requested stays as it was.
RefreshAfterRaise(requested) == requested

\* set_device_settings returns: the refresh is requested.
SettingsReturns(d) ==
    /\ cmd[d] # None
    /\ cmd' = [cmd EXCEPT ![d] = None]
    /\ cmdResult' = [cmdResult EXCEPT ![d] = "returned"]
    /\ refreshRequested' = [refreshRequested EXCEPT ![d] = TRUE]
    /\ UNCHANGED <<setupVars, pc, locState, data, outcome, calls, hostVars>>

\* set_device_settings raises: the command ends there.
SettingsRaises(d) ==
    /\ cmd[d] # None
    /\ cmd' = [cmd EXCEPT ![d] = None]
    /\ cmdResult' = [cmdResult EXCEPT ![d] = "raised"]
    /\ refreshRequested' = [refreshRequested EXCEPT ![d] =
            RefreshAfterRaise(@)]
    /\ UNCHANGED <<setupVars, pc, locState, data, outcome, calls, hostVars>>

-----------------------------------------------------------------------------
(* The sensor entities *)

\* The raw values of the sensor fields range over -MaxRaw..MaxRaw and a
\* little above.
MaxRaw == 30

\* The descriptors whose value_fn is int(value) / 10.
TenthsKeys ==
    {"exhaustAirTemp", "extractAirTemp", "systemOutdoorTemp",
     "systemSupplyTemp"}

\* The descriptors whose value_fn is int(value).
IntKeys ==
    {"exhaustAirHumidity", "extractAirHumidity", "systemOutdoorHumidity",
     "systemSupplyHumidity", "exhaustSpeed", "systemSupplySpeed",
     "exhaustDuty", "systemSupplyDuty", "exhaustFanAirFlow",
     "supplyFanAirFlow", "currentVentilationPower",
     "remainingFilterDuration"}

\* The descriptors whose value_fn is the value itself.
RawKeys ==
    {"analogInput1", "analogInput2", "analogInput3", "analogInput4",
     "bypassDuty", "bypassMode", "ventilationMode", "ventilationPreset"}

\* The keys of the numeric descriptors of SENSORS.
SensorKeys == TenthsKeys \cup IntKeys \cup RawKeys

\* A state response with every sensor field, in the order of SENSORS: the
\* i-th field holds the integer r + i, so that no two fields hold the same
\* value.
SensorStateDict(r) ==
    [timestamp |-> Some(111),
     exhaustAirTemp |-> r + 1,
     exhaustAirHumidity |-> r + 2,
     extractAirTemp |-> r + 3,
     extractAirHumidity |-> r + 4,
     systemOutdoorTemp |-> r + 5,
     systemOutdoorHumidity |-> r + 6,
     systemSupplyTemp |-> r + 7,
     systemSupplyHumidity |-> r + 8,
     exhaustSpeed |-> r + 9,
     systemSupplySpeed |-> r + 10,
     exhaustDuty |-> r + 11,
     systemSupplyDuty |-> r + 12,
     exhaustFanAirFlow |-> r + 13,
     supplyFanAirFlow |-> r + 14,
     currentVentilationPower |-> r + 15,
     analogInput1 |-> r + 16,
     analogInput2 |-> r + 17,
     analogInput3 |-> r + 18,
     analogInput4 |-> r + 19,
     bypassDuty |-> r + 20,
     bypassMode |-> r + 21,
     ventilationMode |-> r + 22,
     ventilationPreset |-> r + 23,
     remainingFilterDuration |-> r + 24]

SensorStateDicts == { SensorStateDict(r) : r \in (0 - MaxRaw)..MaxRaw }

\* int() of a value the API delivers as an integer.
PyInt(v) == v

\* A whole number as a fraction.
Whole(v) == [num |-> v, den |-> 1]

\* Python's floor division a // b, a whole number.
FloorDiv(a, b) == [num |-> a \div b, den |-> 1]

\* Python's true division a / b of two integers: the quotient itself, kept
\* as numerator and denominator.
TrueDiv(a, b) == [num |-> a, den |-> b]

\* value_fn of the descriptor with this key, on a state.
SensorValue(state, key) ==
    CASE key \in TenthsKeys -> TrueDiv(PyInt(StateValue(state, key)), 10)
      [] key \in IntKeys -> Whole(PyInt(StateValue(state, key)))
      [] key \in RawKeys -> Whole(StateValue(state, key))

\* ZehnderCloudSensor.native_value of device d's sensor with this key.
NativeValue(d, key) == SensorValue(CoordinatorState(d).value, key)

HasSensors(d) ==
    setupPc = "done" /\ d \in Registered /\ "sensor" \in forwarded

-----------------------------------------------------------------------------
(* Specifications *)

Setup ==
    \/ SetupEntry
    \/ \E list \in DeviceLists : GetDevicesReturns(list)
    \/ \E raised \in ApiExceptions : GetDevicesRaises(raised)
    \/ CreateCoordinator
    \/ SetupFinish

\* The fetch cycles of the devices, get_device_state's responses taken
\* from `dicts`.
FetchOver(dicts) ==
    \E d \in DeviceIds :
        \/ Refresh(d)
        \/ \E dict \in dicts : StateCallReturns(d, dict)
        \/ \E raised \in ApiExceptions : StateCallRaises(d, raised)
        \/ \E dict \in DetailsDicts : DetailsCallReturns(d, dict)
        \/ \E raised \in ApiExceptions : DetailsCallRaises(d, raised)

Fetch == FetchOver(StateDicts)

FanCommand ==
    \E d \in DeviceIds :
        \/ \E p \in 0..100 : FanSetPercentage(d, p)
        \/ FanTurnOn(d)
        \/ FanTurnOff(d)
        \/ SettingsReturns(d)
        \/ SettingsRaises(d)

Unload == \E unload_ok \in BOOLEAN : UnloadEntry(unload_ok)

Flow ==
    \/ FlowInitUser
    \/ FlowInitReauth
    \/ FlowReauthConfirm
    \/ FlowOAuthCreateEntry

\* The setup of the entry, the polling of its devices and its unload.
Next == Setup \/ Fetch \/ Unload

Spec == Init /\ [][Next]_vars

\* No entry yet and no flow started.
InitFlow ==
    /\ InitIntegration
    /\ entries = 0
    /\ flow = NoFlow

\* The config flows of the domain, from the first one on, with the setup of
\* the entry and the polling of its devices.
NextFlow == Flow \/ Setup \/ Fetch

SpecFlow == InitFlow /\ [][NextFlow]_vars

\* One device after a successful setup, its snapshot holding any preset:
\* its polling and the commands of its fan, with every percentage.
InitFan ==
    /\ setupPc = "done"
    /\ setupResult = "True"
    /\ devices = <<1>>
    /\ coordinators = <<1>>
    /\ hassData = Some(<<1>>)
    /\ forwarded = PLATFORMS
    /\ pc = [d \in DeviceIds |-> IF d = 1 THEN "idle" ELSE "absent"]
    /\ locState = [d \in DeviceIds |-> None]
    /\ \E t \in Timestamps, v \in Presets :
        data = [d \in DeviceIds |->
                 IF d = 1
                 THEN Some([state |-> DeviceState(
                                [timestamp |-> Some(t), ventilationPreset |-> v]),
                            details |-> DeviceDetails([swVersion |-> "R1.4.0"])])
                 ELSE None]
    /\ outcome = [d \in DeviceIds |-> NoOutcome]
    /\ cmd = [d \in DeviceIds |-> None]
    /\ refreshRequested = [d \in DeviceIds |-> FALSE]
    /\ calls = [d \in DeviceIds |->
                IF d = 1 THEN IssueCall(CallsAtCycleStart, "details")
                ELSE NoCalls]
    /\ cmdResult = [d \in DeviceIds |-> "none"]
    /\ entries = 1
    /\ flow = [source |-> "user", step |-> "done", result |-> "create_entry"]
    /\ unloadResult = None

NextFan == Fetch \/ FanCommand

SpecFan == InitFan /\ [][NextFan]_vars

\* One device after a successful setup, its snapshot holding every sensor
\* field: its polling, with responses that hold every sensor field.
InitSensor ==
    /\ setupPc = "done"
    /\ setupResult = "True"
    /\ devices = <<1>>
    /\ coordinators = <<1>>
    /\ hassData = Some(<<1>>)
    /\ forwarded = PLATFORMS
    /\ pc = [d \in DeviceIds |-> IF d = 1 THEN "idle" ELSE "absent"]
    /\ locState = [d \in DeviceIds |-> None]
    /\ \E r \in (0 - MaxRaw)..MaxRaw :
        data = [d \in DeviceIds |->
                 IF d = 1
                 THEN Some([state |-> DeviceState(SensorStateDict(r)),
                            details |-> DeviceDetails([swVersion |-> "R1.4.0"])])
                 ELSE None]
    /\ outcome = [d \in DeviceIds |-> NoOutcome]
    /\ cmd = [d \in DeviceIds |-> None]
    /\ refreshRequested = [d \in DeviceIds |-> FALSE]
    /\ calls = [d \in DeviceIds |->
                IF d = 1 THEN IssueCall(CallsAtCycleStart, "details")
                ELSE NoCalls]
    /\ cmdResult = [d \in DeviceIds |-> "none"]
    /\ entries = 1
    /\ flow = [source |-> "user", step |-> "done", result |-> "create_entry"]
    /\ unloadResult = None

NextSensor == FetchOver(SensorStateDicts)

SpecSensor == InitSensor /\ [][NextSensor]_vars

-----------------------------------------------------------------------------
(* Properties *)

\* The timestamp of a stored snapshot's state (None when null or missing).
SnapshotTimestamp(d) == DictGet(data[d][1].state.data, "timestamp")

\* Device d's fetch cycle ends in this step.
CycleEnds(d) == pc[d] \in {"state_call", "details_call"} /\ pc'[d] = "idle"

C1_StoredTimestamp ==
    \A d \in DeviceIds : data[d] # None => SnapshotTimestamp(d) # None

C1_NullKeeps ==
    \A d \in DeviceIds :
        ( /\ pc[d] = "details_call"
          /\ CycleEnds(d)
          /\ DictGet(locState[d][1].data, "timestamp") = None )
        => data'[d] = data[d]

\* C1: every stored snapshot's state has a non-null timestamp, and a fetch
\* cycle whose state response has a null or missing timestamp leaves the
\* stored snapshot (state and details) as it was.
C1_Theorem == [](C1_StoredTimestamp) /\ [][C1_NullKeeps]_vars

\* A snapshot is stored and the cycle after it failed on the timestamp check.
C1_Witness ==
    \E d \in DeviceIds :
        /\ data[d] # None
        /\ pc[d] = "idle"
        /\ outcome[d] = [raised |-> "none", by |-> "none",
                         exc |-> "UpdateFailed", cause |-> "none"]

\* C2: a fetch cycle in which the state call or the details call raised
\* AuthError ends with ConfigEntryAuthFailed, never with UpdateFailed.
C2_Theorem ==
    \A d \in DeviceIds :
        outcome[d].raised = "AuthError"
        => outcome[d].exc = "ConfigEntryAuthFailed"

\* One device's cycle ended on an AuthError of the state call, another's on
\* an AuthError of the details call.
C2_Witness ==
    \E d1, d2 \in DeviceIds :
        /\ outcome[d1].raised = "AuthError" /\ outcome[d1].by = "state"
        /\ outcome[d2].raised = "AuthError" /\ outcome[d2].by = "details"

\* C4: a fetch cycle in which a call raised anything but AuthError (an error
\* of the client, or the timeout of that call) ends with UpdateFailed carrying
\* that exception as its cause, and the stored snapshot stays as it was and
\* is still what the state and details properties return.
C4_Theorem ==
    [][\A d \in DeviceIds :
        (CycleEnds(d) /\ outcome'[d].raised \in {"ApiError", "TimeoutError"})
        => /\ outcome'[d].exc = "UpdateFailed"
           /\ outcome'[d].cause = outcome'[d].raised
           /\ data'[d] = data[d]
           /\ CoordinatorState(d)' = CoordinatorState(d)
           /\ CoordinatorDetails(d)' = CoordinatorDetails(d)]_vars

\* A snapshot is stored and the cycle after it ended on a timeout of the
\* details call.
C4_Witness ==
    \E d \in DeviceIds :
        /\ data[d] # None
        /\ outcome[d].raised = "TimeoutError"
        /\ outcome[d].by = "details"
        /\ outcome[d].exc = "UpdateFailed"

SentSpeed(d) == cmd[d][1].patch.setVentilationPreset.value

\* C6: the speed async_set_percentage sends is the smallest s in 0..3 with
\* s >= 3 * percentage / 100: 0 for 0, 2 for 34..66, 3 for 100.
C6_Theorem ==
    \A d \in DeviceIds :
        cmd[d] # None =>
            LET p == cmd[d][1].percentage
                s == SentSpeed(d)
            IN  /\ s \in 0..3
                /\ s * 100 >= 3 * p
                /\ \A t \in 0..3 : t * 100 >= 3 * p => s <= t
                /\ (p = 0 => s = 0)
                /\ (p \in 34..66 => s = 2)
                /\ (p = 100 => s = 3)

\* A command with percentage 34 is in flight.
C6_Witness ==
    \E d \in DeviceIds : cmd[d] # None /\ cmd[d][1].percentage = 34

\* C7: for a stored ventilationPreset s in 1..3, a command whose percentage
\* is the percentage the fan reports sends speed s.
C7_Theorem ==
    \A d \in DeviceIds :
        ( /\ cmd[d] # None
          /\ data[d] # None
          /\ StateValue(data[d][1].state, "ventilationPreset") \in 1..3
          /\ cmd[d][1].percentage = FanPercentage(d) )
        => SentSpeed(d) = StateValue(data[d][1].state, "ventilationPreset")

\* The fan reports the percentage of preset 1 and a command with that
\* percentage is in flight.
C7_Witness ==
    \E d \in DeviceIds :
        /\ cmd[d] # None
        /\ data[d] # None
        /\ StateValue(data[d][1].state, "ventilationPreset") = 1
        /\ cmd[d][1].percentage = FanPercentage(d)

\* The snapshot of the scenario: state {timestamp: 111, ventilationPreset: 2}.
C8_Scenario(d) ==
    /\ HasFan(d)
    /\ data[d] # None
    /\ data[d][1].state.data =
         [timestamp |-> Some(111), ventilationPreset |-> 2]

\* C8 as stated: with that snapshot the fan's percentage is about 50 (within
\* 10 of it) and the "Ventilation Preset" sensor reads 2.
C8_Original ==
    \A d \in DeviceIds :
        C8_Scenario(d) =>
            /\ FanPercentage(d) \in 40..60
            /\ VentilationPresetSensor(d) = 2

\* C8, amended: with that snapshot the fan's percentage is 66 (200 // 3) and
\* the "Ventilation Preset" sensor reads 2.
C8_Theorem ==
    \A d \in DeviceIds :
        C8_Scenario(d) =>
            /\ FanPercentage(d) = 66
            /\ VentilationPresetSensor(d) = 2

C8_Witness == \E d \in DeviceIds : C8_Scenario(d) /\ pc[d] = "idle"

\* C10: after a successful setup the forwarded platforms include sensor,
\* binary sensor, fan and select.
C10_AllFourPlatforms ==
    setupPc = "done"
    => {"sensor", "binary_sensor", "fan", "select"} \subseteq forwarded

\* A command of device d's entity calls set_device_settings in this step.
CommandIssued(d) == cmd[d] = None /\ cmd'[d] # None

\* The set_device_settings call of device d's command ends in this step.
CommandEnds(d) == cmd[d] # None /\ cmd'[d] = None

C12_Theorem ==
    /\ [](\A d \in DeviceIds :
            /\ pc[d] = "state_call" => calls[d] = [state |-> 1, details |-> 0]
            /\ calls[d].details > 0
               => /\ calls[d].state = 1
                  /\ \/ pc[d] = "details_call" /\ locState[d] # None
                     \/ pc[d] = "idle" /\ outcome[d].by # "state"
            /\ outcome[d].by = "state" => calls[d].details = 0)
    /\ [][\A d \in DeviceIds :
            (CycleEnds(d) /\ outcome'[d].raised = "none")
            => /\ pc[d] = "details_call"
               /\ locState[d] # None
               /\ calls[d] = [state |-> 1, details |-> 1]]_vars

\* One device's cycle ended on a timeout of the state call with no details
\* call issued, another's on the timestamp check after both calls.
C12_Witness ==
    \E d1, d2 \in DeviceIds :
        /\ pc[d1] = "idle"
        /\ outcome[d1].raised = "TimeoutError" /\ outcome[d1].by = "state"
        /\ calls[d1] = [state |-> 1, details |-> 0]
        /\ pc[d2] = "idle"
        /\ outcome[d2].raised = "none" /\ outcome[d2].exc = "UpdateFailed"
        /\ calls[d2] = [state |-> 1, details |-> 1]

\* C13: the coordinators are registered and the platforms forwarded only
\* in a step in which every discovered device's first fetch cycle is over,
\* and every device that has entities has a stored snapshot.
C13_Theorem ==
    /\ [](\A d \in DeviceIds :
            (d \in Registered \/ (forwarded # {} /\ d \in Range(devices)))
            => data[d] # None)
    /\ [][(hassData' # hassData \/ forwarded' # forwarded)
           /\ (hassData' # None \/ forwarded' # {})
           => \A d \in Range(devices) :
                /\ pc[d] = "idle"
                /\ data[d] # None
                /\ d \in Range(coordinators)]_vars

\* All the devices of the bound are registered with their platforms; one of
\* them is in a later fetch cycle.
C13_Witness ==
    /\ hassData # None
    /\ forwarded # {}
    /\ Len(devices) = NumDevices
    /\ \E d \in Registered : pc[d] = "details_call"

\* C18: when async_setup_entry has returned True the registry holds the
\* coordinators of the devices get_devices returned, one each and in that
\* order, each with a stored snapshot; when it has raised, nothing is
\* registered and no platform is forwarded, whatever snapshots exist.
C18_Theorem ==
    /\ (setupPc = "done" /\ setupResult = "True")
       => /\ hassData = Some(devices)
          /\ forwarded = PLATFORMS
          /\ \A i \in 1..Len(devices) : data[devices[i]] # None
          /\ \A i, j \in 1..Len(hassData[1]) :
                hassData[1][i] = hassData[1][j] => i = j
    /\ setupPc = "raised" => hassData = None /\ forwarded = {}
    /\ setupPc \in {"not_started", "get_devices", "loop", "first_refresh"}
       => hassData = None /\ forwarded = {}

\* The setup raised on the second device's first refresh after the first
\* device's had stored a snapshot.
C18_Witness ==
    /\ setupPc = "raised"
    /\ Len(devices) = 2
    /\ data[devices[1]] # None
    /\ data[devices[2]] = None
    /\ pc[devices[2]] = "idle"

\* C15: for every coordinator that exists, reading its state and details
\* properties gives a result and not an error, also before the first
\* successful fetch; once a snapshot is stored they give that snapshot's
\* state and details.
C15_ReadsDefined ==
    \A d \in DeviceIds :
        pc[d] # "absent"
        => /\ CoordinatorState(d).ok
           /\ CoordinatorDetails(d).ok
           /\ data[d] # None
              => /\ CoordinatorState(d).value = data[d][1].state
                 /\ CoordinatorDetails(d).value = data[d][1].details

\* C17: a fetch cycle issues get_device_state at most once and
\* get_device_details at most once; a cycle that has failed is over, and
\* the next call for its device is the get_device_state of a new cycle,
\* started while the device was idle.
C17_Theorem ==
    /\ [](\A d \in DeviceIds :
            /\ calls[d].state <= 1
            /\ calls[d].details <= 1
            /\ outcome[d].exc # "none" => pc[d] = "idle")
    /\ [][\A d \in DeviceIds :
            (outcome[d].exc # "none" /\ calls'[d] # calls[d])
            => /\ pc[d] = "idle"
               /\ pc'[d] = "state_call"
               /\ calls'[d] = [state |-> 1, details |-> 0]
               /\ outcome'[d] = NoOutcome]_vars

\* A cycle failed on a timeout of the details call and the next cycle of
\* that device has not been started.
C17_Witness ==
    \E d \in DeviceIds :
        /\ pc[d] = "idle"
        /\ data[d] # None
        /\ outcome[d].raised = "TimeoutError"
        /\ outcome[d].by = "details"
        /\ calls[d] = [state |-> 1, details |-> 1]

\* C19: a reauth flow whose form the user confirms goes on to the OAuth2
\* authorization and does not abort with single_instance_allowed; with the
\* tokens it ends with reauth_successful and creates no second entry.
C19_ReauthCompletes ==
    [][/\ (flow.source = "reauth" /\ flow.step = "reauth_confirm"
            /\ flow' # flow)
           => /\ flow'.step = "oauth"
              /\ flow'.result # "abort_single_instance_allowed"
       /\ (flow.source = "reauth" /\ flow.step = "oauth" /\ flow' # flow)
           => /\ flow'.result = "abort_reauth_successful"
              /\ entries' = entries]_vars

RawValue(d, key) == StateValue(data[d][1].state, key)

\* The descriptors that are not in tenths report the raw value unscaled.
OthersUnscaled(d) ==
    \A key \in SensorKeys \ TenthsKeys :
        NativeValue(d, key) = Whole(RawValue(d, key))

\* C16 as stated: a sensor in tenths reports the whole number r div 10 of
\* its raw value r, and the other numeric sensors report the raw value.
C16_Original ==
    \A d \in DeviceIds :
        (HasSensors(d) /\ data[d] # None)
        => /\ \A key \in TenthsKeys :
                LET v == NativeValue(d, key) IN
                    v.num = (RawValue(d, key) \div 10) * v.den
           /\ OthersUnscaled(d)

\* C16, amended: a sensor in tenths reports its raw value r divided by 10
\* as a decimal number, r / 10 with its tenths digit (a whole number only
\* when r is a multiple of 10), and the other numeric sensors report the
\* raw value.
C16_Theorem ==
    \A d \in DeviceIds :
        (HasSensors(d) /\ data[d] # None)
        => /\ \A key \in TenthsKeys :
                LET v == NativeValue(d, key) IN
                    /\ v.den > 0
                    /\ v.num * 10 = RawValue(d, key) * v.den
                    /\ v.num % v.den = 0 <=> RawValue(d, key) % 10 = 0
           /\ OthersUnscaled(d)

\* The stored state's exhaustAirTemp is -5 (tenths of a degree) and its
\* systemSupplyTemp is 1, and the sensors still read them after a cycle
\* that timed out.
C16_Witness ==
    \E d \in DeviceIds :
        /\ HasSensors(d)
        /\ data[d] # None
        /\ pc[d] = "idle"
        /\ outcome[d].raised = "TimeoutError"
        /\ RawValue(d, "exhaustAirTemp") = 0 - 5
        /\ RawValue(d, "systemSupplyTemp") = 1

=============================================================================
